---- MODULE Spec2Model ----
(***************************************************************************)
(* Air Quality Monitor (src/AirQuality/main.c): the single-threaded        *)
(* epoll/timerfd event loop, its two level-polling edge detectors, the     *)
(* CCS811/HDC1000 measurement cycle, the Azure upload tick and the         *)
(* init / run / cleanup lifecycle of main().                               *)
(*                                                                         *)
(* Temperatures and humidities are doubles in the program; the model      *)
(* carries them as integers in hundredths (2250 is 22.50).                 *)
(***************************************************************************)
EXTENDS Integers, Sequences, FiniteSets, TLC

(***************************************************************************)
(* Environment: the values the collaborators can deliver.                  *)
(***************************************************************************)
\* GPIO_Value_Type
Levels == {"High", "Low"}

\* What hdc1000_get_temp / hdc1000_get_humi return on a good read
\* (hundredths; no value sits on a rounding tie of "%.1f").
TempValues == {2250, -4}
HumValues == {4500}

\* What they return when the sensor read went wrong: the functions return a
\* plain double and carry no status; the caller sees only a number.
HdcFailValues == {0}

\* (eCO2, TVOC) pairs ccs811_get_results stores on success.
AqResults == {<<612, 134>>, <<400, 0>>}

\* The builds azure_iot_settings.h allows: with IOT_CENTRAL_APPLICATION or
\* IOT_HUB_APPLICATION defined (TRUE), or without cloud connectivity (FALSE,
\* the file as it stands).
IotApplicationBuilds == BOOLEAN

\* The three timer sources registered with epoll.
Timers == {"button", "ccs811_int", "upload"}

\* Everything main() acquires, in the order the code acquires it.
AcquireOrder ==
    <<"epoll", "timer_upload", "i2c", "hdc", "ccs", "gpio_ccs811_int",
      "gpio_button1", "timer_button", "timer_ccs811_int">>

Resources == {AcquireOrder[i] : i \in 1..Len(AcquireOrder)}

(***************************************************************************)
(* printf conversions used by display_measurements and the upload message. *)
(***************************************************************************)
DigitStr(d) ==
    CASE d = 0 -> "0" [] d = 1 -> "1" [] d = 2 -> "2" [] d = 3 -> "3"
      [] d = 4 -> "4" [] d = 5 -> "5" [] d = 6 -> "6" [] d = 7 -> "7"
      [] d = 8 -> "8" [] d = 9 -> "9"

RECURSIVE NatStr(_)
NatStr(n) == IF n < 10 THEN DigitStr(n) ELSE NatStr(n \div 10) \o DigitStr(n % 10)

\* "%d"
FmtD(i) == IF i < 0 THEN "-" \o NatStr(0 - i) ELSE NatStr(i)

\* "%.1f" of a double given in hundredths: rounded to one decimal, the sign
\* kept even when the rounded magnitude is zero ("-0.0").
FmtF1(h) ==
    LET mag == IF h < 0 THEN 0 - h ELSE h
        tenths == (mag + 5) \div 10
    IN  (IF h < 0 THEN "-" ELSE "") \o NatStr(tenths \div 10) \o "." \o DigitStr(tenths % 10)

\* A value stored through a 16-bit pointer and read back as int16_t.
ToInt16(v) == LET m == v % 65536 IN IF m >= 32768 THEN m - 65536 ELSE m

(***************************************************************************)
(* State.                                                                  *)
(***************************************************************************)
VARIABLES
    pc,                          \* position of main()
    gb_is_termination_requested, \* termination flag
    result,                      \* local "result" of init_handlers / init_peripherals
    sig_installed,               \* sigaction(SIGTERM) succeeded
    fd,                          \* per resource: "none" (-1 / NULL), "open", "closed"
    g_state_button1,
    g_state_ccs811_int,
    g_temperature,
    g_humidity,
    g_eco2,
    g_tvoc,
    iot_application,             \* build has IOT_CENTRAL_APPLICATION or IOT_HUB_APPLICATION
    wait_result,                 \* return value of WaitForEventAndCallHandler
    pending,                     \* ready timers still to be dispatched by this wait
    acquired,                    \* history: resources in order of acquisition
    released,                    \* history: resources in order of release
    failed_step,                 \* history: first initialization step that failed
    handler_fault,               \* history: "io" / "sensor" once a handler met that fault
    scenario,                    \* history: per detector, how far its polls follow PollScenario
    ev                           \* history: what the last step did

vars ==
    <<pc, gb_is_termination_requested, result, sig_installed, fd,
      g_state_button1, g_state_ccs811_int, g_temperature, g_humidity,
      g_eco2, g_tvoc, iot_application, wait_result, pending, acquired,
      released, failed_step, handler_fault, scenario, ev>>

snapshot == <<g_temperature, g_humidity, g_eco2, g_tvoc>>
detectors == <<g_state_button1, g_state_ccs811_int>>
loop_state == <<wait_result, pending>>
history == <<acquired, released, failed_step, handler_fault, scenario>>

\* The record left by a step: the operation, whether its external call
\* succeeded, and what a handler did.
Event(op, ok) ==
    [op |-> op, ok |-> ok,
     ack |-> FALSE, read_tried |-> FALSE, read |-> FALSE,
     sampled |-> "none", before |-> "none",
     callbacks |-> 0, fatal |-> FALSE,
     ref_ok |-> FALSE, set_ok |-> FALSE, get_ok |-> FALSE,
     set_args |-> <<>>, aq_read |-> FALSE, alloc_ok |-> FALSE,
     render |-> <<>>, messages |-> <<>>,
     consumed |-> "none", sigterm |-> FALSE,
     ref_values |-> <<>>, aq_result |-> <<>>, calls |-> <<>>]

\* The program after its globals are initialised, main.c:153-197.
ProgramInit ==
    /\ pc = "main"
    /\ gb_is_termination_requested = FALSE
    /\ result = -1
    /\ sig_installed = FALSE
    /\ fd = [r \in Resources |-> "none"]
    /\ g_state_button1 = "High"
    /\ g_state_ccs811_int = "High"
    /\ g_temperature = 0
    /\ g_humidity = 0
    /\ g_eco2 = 0
    /\ g_tvoc = 0
    /\ iot_application \in IotApplicationBuilds
    /\ wait_result = 0
    /\ pending = {}
    /\ acquired = <<>>
    /\ released = <<>>
    /\ failed_step = "none"
    /\ handler_fault = "none"
    /\ ev = Event("start", TRUE)

\* The program, with the history following PollScenario from the first poll.
Init ==
    /\ ProgramInit
    /\ scenario = [d \in {"button", "ccs811_int"} |-> [polls |-> 0, callbacks |-> {}]]

\* The same program, with the history following no scenario.
InitUnfollowed ==
    /\ ProgramInit
    /\ scenario = [d \in {"button", "ccs811_int"} |-> [polls |-> -1, callbacks |-> {}]]

\* A resource was obtained: its descriptor becomes valid.
Acquire(r) ==
    /\ fd' = [fd EXCEPT ![r] = "open"]
    /\ acquired' = Append(acquired, r)

\* An initialization step failed.
NoteFailure(step) ==
    failed_step' = IF failed_step = "none" THEN step ELSE failed_step

(***************************************************************************)
(* Initialization: main() up to the dispatch loop.                         *)
(***************************************************************************)
\* main.c:206
main_start ==
    /\ pc = "main"
    /\ gb_is_termination_requested' = FALSE
    /\ pc' = "sigaction"
    /\ ev' = Event("main", TRUE)
    /\ UNCHANGED <<result, sig_installed, fd, detectors, snapshot,
                   iot_application, loop_state, history>>

\* init_handlers: sigaction(SIGTERM). A failure is logged and leaves
\* result = -1; the function goes on to CreateEpollFd.
init_handlers_sigaction ==
    /\ pc = "sigaction"
    /\ \E ok \in BOOLEAN :
          /\ result' = IF ok THEN 0 ELSE -1
          /\ sig_installed' = ok
          /\ failed_step' = IF ok THEN failed_step ELSE "sigaction"
          /\ ev' = Event("sigaction", ok)
    /\ pc' = "create_epoll"
    /\ UNCHANGED <<gb_is_termination_requested, fd, detectors, snapshot,
                   iot_application, loop_state, acquired, released, handler_fault,
                   scenario>>

\* init_handlers: g_fd_epoll = CreateEpollFd(); not guarded by result.
init_handlers_epoll ==
    /\ pc = "create_epoll"
    /\ \E ok \in BOOLEAN :
          /\ ev' = Event("CreateEpollFd", ok)
          /\ IF ok
                THEN /\ Acquire("epoll")
                     /\ UNCHANGED <<result, failed_step>>
                ELSE /\ result' = -1
                     /\ NoteFailure("CreateEpollFd")
                     /\ UNCHANGED <<fd, acquired>>
    /\ pc' = "create_upload_timer"
    /\ UNCHANGED <<gb_is_termination_requested, sig_installed, detectors,
                   snapshot, iot_application, loop_state, released, handler_fault,
                   scenario>>

\* The pattern of every later step: "if (result != -1) { r = open(...);
\* if (failed) result = -1; }".
GuardedOpen(here, next, op, r) ==
    /\ pc = here
    /\ pc' = next
    /\ IF result # -1
          THEN \E ok \in BOOLEAN :
                  /\ ev' = Event(op, ok)
                  /\ IF ok
                        THEN /\ Acquire(r)
                             /\ UNCHANGED <<result, failed_step>>
                        ELSE /\ result' = -1
                             /\ NoteFailure(op)
                             /\ UNCHANGED <<fd, acquired>>
          ELSE /\ ev' = Event("skipped", TRUE)
               /\ UNCHANGED <<result, fd, acquired, failed_step>>
    /\ UNCHANGED <<gb_is_termination_requested, sig_installed, detectors,
                   snapshot, iot_application, loop_state, released, handler_fault,
                   scenario>>

\* init_handlers: the Azure upload poll timer.
init_handlers_upload_timer ==
    GuardedOpen("create_upload_timer", "main_209", "CreateTimerFd_upload", "timer_upload")

\* main.c:209-216: a failed init_handlers sets the flag; init_peripherals is
\* entered (with its own result = -1) only while the flag is clear.
main_after_init_handlers ==
    /\ pc = "main_209"
    /\ gb_is_termination_requested' = (gb_is_termination_requested \/ result # 0)
    /\ IF ~gb_is_termination_requested'
          THEN pc' = "i2c_open" /\ result' = -1
          ELSE pc' = "main_226" /\ UNCHANGED result
    /\ ev' = Event("init_handlers_return", result = 0)
    /\ UNCHANGED <<sig_installed, fd, detectors, snapshot, iot_application,
                   loop_state, history>>

\* init_peripherals: I2CMaster_Open. On success result is still -1 until
\* I2CMaster_SetBusSpeed assigns it.
init_peripherals_i2c_open ==
    /\ pc = "i2c_open"
    /\ \E ok \in BOOLEAN :
          /\ ev' = Event("I2CMaster_Open", ok)
          /\ IF ok
                THEN /\ Acquire("i2c")
                     /\ pc' = "i2c_speed"
                     /\ UNCHANGED failed_step
                ELSE /\ NoteFailure("I2CMaster_Open")
                     /\ pc' = "hdc_open"
                     /\ UNCHANGED <<fd, acquired>>
    /\ UNCHANGED <<gb_is_termination_requested, result, sig_installed,
                   detectors, snapshot, iot_application, loop_state, released,
                   handler_fault, scenario>>

\* A configuration call on the I2C descriptor: result = call(); the next
\* call is made only when it returned 0.
I2cConfigure(here, next, op) ==
    /\ pc = here
    /\ \E ok \in BOOLEAN :
          /\ ev' = Event(op, ok)
          /\ result' = IF ok THEN 0 ELSE -1
          /\ failed_step' = IF ok \/ failed_step # "none" THEN failed_step ELSE op
          /\ pc' = IF ok THEN next ELSE "hdc_open"
    /\ UNCHANGED <<gb_is_termination_requested, sig_installed, fd, detectors,
                   snapshot, iot_application, loop_state, acquired, released,
                   handler_fault, scenario>>

init_peripherals_i2c_speed ==
    I2cConfigure("i2c_speed", "i2c_timeout", "I2CMaster_SetBusSpeed")

init_peripherals_i2c_timeout ==
    I2cConfigure("i2c_timeout", "hdc_open", "I2CMaster_SetTimeout")

init_peripherals_hdc ==
    GuardedOpen("hdc_open", "ccs_open", "hdc1000_open", "hdc")

init_peripherals_ccs ==
    GuardedOpen("ccs_open", "gpio_ccs_open", "ccs811_open", "ccs")

init_peripherals_gpio_ccs811_int ==
    GuardedOpen("gpio_ccs_open", "oled_init", "GPIO_OpenAsInput_ccs811_int", "gpio_ccs811_int")

\* init_peripherals: the OLED set-up calls; none of them is checked.
init_peripherals_oled ==
    /\ pc = "oled_init"
    /\ pc' = "gpio_button_open"
    /\ ev' = IF result # -1 THEN Event("u8g2_InitDisplay", TRUE) ELSE Event("skipped", TRUE)
    /\ UNCHANGED <<gb_is_termination_requested, result, sig_installed, fd,
                   detectors, snapshot, iot_application, loop_state, history>>

init_peripherals_gpio_button1 ==
    GuardedOpen("gpio_button_open", "button_timer", "GPIO_OpenAsInput_button1", "gpio_button1")

init_peripherals_button_timer ==
    GuardedOpen("button_timer", "ccs_timer", "CreateTimerFd_button", "timer_button")

init_peripherals_ccs811_int_timer ==
    GuardedOpen("ccs_timer", "main_218", "CreateTimerFd_ccs811_int", "timer_ccs811_int")

\* main.c:218-222
main_after_init_peripherals ==
    /\ pc = "main_218"
    /\ gb_is_termination_requested' = (gb_is_termination_requested \/ result # 0)
    /\ pc' = "main_226"
    /\ ev' = Event("init_peripherals_return", result = 0)
    /\ UNCHANGED <<result, sig_installed, fd, detectors, snapshot,
                   iot_application, loop_state, history>>

(***************************************************************************)
(* Display and upload payload.                                             *)
(***************************************************************************)
\* display_measurements: the three value lines sent to the OLED, from the
\* globals given.
display_measurements(eco2, tvoc, humidity) ==
    << IF eco2 > 0 THEN FmtD(eco2) ELSE "...",
       IF eco2 > 0 THEN FmtD(tvoc) ELSE "...",
       IF humidity > 0 THEN FmtF1(humidity) ELSE "..." >>

\* The snprintf format of azure_upload_handler.
UploadMessage(eco2, tvoc, temperature, humidity) ==
    "{\"eco2\":\"" \o FmtD(eco2) \o "\", \"tvoc\":\"" \o FmtD(tvoc)
      \o "\", \"temperature\":\"" \o FmtF1(temperature)
      \o "\", \"humidity\":\"" \o FmtF1(humidity) \o "\"}"

\* An upload that waits for the first valid eCO2.
azure_upload_handler_skipping_invalid(malloc_ok) ==
    IF iot_application /\ malloc_ok /\ g_eco2 > 0
       THEN << UploadMessage(g_eco2, g_tvoc, g_temperature, g_humidity) >>
       ELSE << >>

\* azure_upload_handler: the messages handed to AzureIoT_SendMessage. The
\* body is compiled only into an IoT Central / IoT Hub build, and sends
\* nothing when the buffer cannot be allocated.
azure_upload_handler(malloc_ok) ==
    IF iot_application /\ malloc_ok
       THEN << UploadMessage(g_eco2, g_tvoc, g_temperature, g_humidity) >>
       ELSE << >>

(***************************************************************************)
(* The dispatch loop of main().                                            *)
(***************************************************************************)
\* main.c:226-237: with the flag clear the display is cleared, the CCS811 is
\* put into 10 s mode with its interrupt enabled and the first screen drawn.
main_enter ==
    /\ pc = "main_226"
    /\ IF ~gb_is_termination_requested
          THEN /\ pc' = "loop"
               /\ ev' = [Event("enter_running", TRUE) EXCEPT
                            !.render = display_measurements(g_eco2, g_tvoc, g_humidity)]
          ELSE /\ pc' = "cleanup"
               /\ ev' = Event("skip_running", TRUE)
    /\ UNCHANGED <<gb_is_termination_requested, result, sig_installed, fd,
                   detectors, snapshot, iot_application, loop_state, history>>

\* A loop that never looks at the flag.
main_loop_check_ignoring_flag ==
    /\ pc = "loop"
    /\ pc' = "wait"
    /\ ev' = Event("loop_continue", TRUE)
    /\ UNCHANGED <<gb_is_termination_requested, result, sig_installed, fd,
                   detectors, snapshot, iot_application, loop_state, history>>

\* A loop condition that tests the outcome of the last wait, not the flag.
main_loop_check_testing_wait_result ==
    /\ pc = "loop"
    /\ IF wait_result = 0
          THEN pc' = "wait" /\ ev' = Event("loop_continue", TRUE)
          ELSE pc' = "cleanup" /\ ev' = Event("loop_exit", TRUE)
    /\ UNCHANGED <<gb_is_termination_requested, result, sig_installed, fd,
                   detectors, snapshot, iot_application, loop_state, history>>

\* main.c:240 and 275: the loop condition; leaving the loop clears the
\* display.
main_loop_check ==
    /\ pc = "loop"
    /\ IF ~gb_is_termination_requested
          THEN pc' = "wait" /\ ev' = Event("loop_continue", TRUE)
          ELSE pc' = "cleanup" /\ ev' = Event("loop_exit", TRUE)
    /\ UNCHANGED <<gb_is_termination_requested, result, sig_installed, fd,
                   detectors, snapshot, iot_application, loop_state, history>>

\* WaitForEventAndCallHandler, the wait: it fails, or reports a non-empty
\* set of ready timers.
WaitForEventAndCallHandler ==
    /\ pc = "wait"
    /\ \/ /\ wait_result' = -1
          /\ pending' = {}
          /\ pc' = "wait_return"
          /\ ev' = Event("wait", FALSE)
       \/ \E ready \in (SUBSET Timers) \ {{}} :
             /\ wait_result' = 0
             /\ pending' = ready
             /\ pc' = "dispatch"
             /\ ev' = Event("wait", TRUE)
    /\ UNCHANGED <<gb_is_termination_requested, result, sig_installed, fd,
                   detectors, snapshot, iot_application, history>>

\* A dispatch that drops the other ready timers once one handler has run.
Dispatched_dropping_rest(t, fatal) ==
    /\ pending' = {}
    /\ pc' = "wait_return"
    /\ UNCHANGED wait_result

\* WaitForEventAndCallHandler, after the handler of timer t has run: a
\* handler that signalled fatal ends the dispatch of this call.
Dispatched(t, fatal) ==
    /\ pending' = IF fatal THEN {} ELSE pending \ {t}
    /\ pc' = IF pending' = {} THEN "wait_return" ELSE "dispatch"
    /\ UNCHANGED wait_result

\* A loop body that assigns the flag from the outcome of this iteration.
main_after_wait_assigning_flag ==
    /\ pc = "wait_return"
    /\ \E setup_ok \in BOOLEAN :
          /\ gb_is_termination_requested' =
                (wait_result # 0 \/ (iot_application /\ ~setup_ok))
          /\ ev' = Event("wait_return", wait_result = 0 /\ (iot_application => setup_ok))
    /\ pc' = "loop"
    /\ UNCHANGED <<result, sig_installed, fd, detectors, snapshot,
                   iot_application, loop_state, history>>

\* main.c:243-273: a failed wait sets the flag; an IoT build then sets up
\* the client, and a failure of that sets the flag as well.
main_after_wait ==
    /\ pc = "wait_return"
    /\ \E setup_ok \in BOOLEAN :
          /\ gb_is_termination_requested' =
                (gb_is_termination_requested \/ wait_result # 0
                    \/ (iot_application /\ ~setup_ok))
          /\ ev' = Event("wait_return", wait_result = 0 /\ (iot_application => setup_ok))
    /\ pc' = "loop"
    /\ UNCHANGED <<result, sig_installed, fd, detectors, snapshot,
                   iot_application, loop_state, history>>

\* termination_handler: SIGTERM, delivered at any point once installed.
termination_handler ==
    /\ sig_installed
    /\ pc # "stopped"
    /\ gb_is_termination_requested' = TRUE
    /\ ev' = Event("SIGTERM", TRUE)
    /\ UNCHANGED <<pc, result, sig_installed, fd, detectors, snapshot,
                   iot_application, loop_state, history>>

(***************************************************************************)
(* Timer handlers.                                                         *)
(***************************************************************************)
\* A detector that calls back on every Low sample, changed or not.
button_edge_on_every_low(stored, new) ==
    [state |-> IF new # stored THEN new ELSE stored,
     callbacks |-> IF new = "Low" THEN 1 ELSE 0]

\* button_timer_event_handler, main.c:402-409: the stored level follows a
\* changed sample; button1_press_handler runs on a change to Low. The
\* press handler only logs.
button_edge(stored, new) ==
    [state |-> IF new # stored THEN new ELSE stored,
     callbacks |-> IF new # stored /\ new = "Low" THEN 1 ELSE 0]

\* A data-ready detector that starts a cycle on every Low sample.
ccs811_int_edge_on_every_low(stored, new) ==
    [state |-> IF new # stored THEN new ELSE stored,
     callbacks |-> IF new = "Low" THEN 1 ELSE 0]

\* A data-ready detector that stores the new level only when it did not
\* call back.
ccs811_int_edge_storing_high_only(stored, new) ==
    [state |-> IF new # stored /\ new # "Low" THEN new ELSE stored,
     callbacks |-> IF new # stored /\ new = "Low" THEN 1 ELSE 0]

\* ccs811_int_timer_event_handler, main.c:432-440.
ccs811_int_edge(stored, new) ==
    [state |-> IF new # stored THEN new ELSE stored,
     callbacks |-> IF new # stored /\ new = "Low" THEN 1 ELSE 0]

\* The (float) casts of main.c:305: the sensors' ranges, in hundredths, lie
\* far inside the 24 bits a float holds exactly; a value outside them loses
\* its low bits.
ToFloat(v) ==
    IF v > -16777216 /\ v < 16777216 THEN v
    ELSE IF v >= 0 THEN (v \div 2) * 2 ELSE -(((-v) \div 2) * 2)

\* A cycle that treats a failed compensation write as fatal.
ccs811_interrupt_handler_set_fatal(t, h, set_ok, get_ok, aq) ==
    LET stored == set_ok /\ get_ok
        eco2 == IF stored THEN ToInt16(aq[1]) ELSE g_eco2
        tvoc == IF stored THEN ToInt16(aq[2]) ELSE g_tvoc
    IN  [temperature |-> t, humidity |-> h, eco2 |-> eco2, tvoc |-> tvoc,
         set_args |-> <<ToFloat(t), ToFloat(h)>>,
         aq_read |-> set_ok,
         calls |-> <<"hdc1000_get_temp", "hdc1000_get_humi",
                     "ccs811_set_environmental_data">>
                   \o (IF set_ok THEN <<"ccs811_get_results">> ELSE << >>)
                   \o (IF stored THEN <<"display_measurements">> ELSE << >>),
         fatal |-> ~stored,
         render |-> IF stored THEN display_measurements(eco2, tvoc, h) ELSE << >>]

\* A cycle that stores the two CCS811 results in each other's place.
ccs811_interrupt_handler_results_swapped(t, h, set_ok, get_ok, aq) ==
    LET stored == set_ok /\ get_ok
        eco2 == IF stored THEN ToInt16(aq[2]) ELSE g_eco2
        tvoc == IF stored THEN ToInt16(aq[1]) ELSE g_tvoc
    IN  [temperature |-> t, humidity |-> h, eco2 |-> eco2, tvoc |-> tvoc,
         set_args |-> <<ToFloat(t), ToFloat(h)>>,
         aq_read |-> set_ok,
         calls |-> <<"hdc1000_get_temp", "hdc1000_get_humi",
                     "ccs811_set_environmental_data">>
                   \o (IF set_ok THEN <<"ccs811_get_results">> ELSE << >>)
                   \o (IF stored THEN <<"display_measurements">> ELSE << >>),
         fatal |-> set_ok /\ ~get_ok,
         render |-> IF stored THEN display_measurements(eco2, tvoc, h) ELSE << >>]

\* A cycle that feeds the CCS811 the temperature and humidity of the
\* previous cycle.
ccs811_interrupt_handler_stale_compensation(t, h, set_ok, get_ok, aq) ==
    LET stored == set_ok /\ get_ok
        eco2 == IF stored THEN ToInt16(aq[1]) ELSE g_eco2
        tvoc == IF stored THEN ToInt16(aq[2]) ELSE g_tvoc
    IN  [temperature |-> t, humidity |-> h, eco2 |-> eco2, tvoc |-> tvoc,
         set_args |-> <<ToFloat(g_temperature), ToFloat(g_humidity)>>,
         aq_read |-> set_ok,
         calls |-> <<"hdc1000_get_temp", "hdc1000_get_humi",
                     "ccs811_set_environmental_data">>
                   \o (IF set_ok THEN <<"ccs811_get_results">> ELSE << >>)
                   \o (IF stored THEN <<"display_measurements">> ELSE << >>),
         fatal |-> set_ok /\ ~get_ok,
         render |-> IF stored THEN display_measurements(eco2, tvoc, h) ELSE << >>]

\* A cycle that draws the display before it stores what it read.
ccs811_interrupt_handler_display_first(t, h, set_ok, get_ok, aq) ==
    LET stored == set_ok /\ get_ok
        eco2 == IF stored THEN ToInt16(aq[1]) ELSE g_eco2
        tvoc == IF stored THEN ToInt16(aq[2]) ELSE g_tvoc
    IN  [temperature |-> t, humidity |-> h, eco2 |-> eco2, tvoc |-> tvoc,
         set_args |-> <<ToFloat(t), ToFloat(h)>>,
         aq_read |-> set_ok,
         calls |-> <<"hdc1000_get_temp", "hdc1000_get_humi",
                     "ccs811_set_environmental_data">>
                   \o (IF set_ok THEN <<"ccs811_get_results">> ELSE << >>)
                   \o (IF stored THEN <<"display_measurements">> ELSE << >>),
         fatal |-> set_ok /\ ~get_ok,
         render |-> IF stored
                       THEN display_measurements(g_eco2, g_tvoc, g_humidity)
                       ELSE << >>]

\* A cycle that gives up at once when termination is already requested.
ccs811_interrupt_handler_cancellable(t, h, set_ok, get_ok, aq) ==
    LET stored == set_ok /\ get_ok
        eco2 == IF stored THEN ToInt16(aq[1]) ELSE g_eco2
        tvoc == IF stored THEN ToInt16(aq[2]) ELSE g_tvoc
    IN  IF gb_is_termination_requested
           THEN [temperature |-> g_temperature, humidity |-> g_humidity,
                 eco2 |-> g_eco2, tvoc |-> g_tvoc,
                 set_args |-> << >>, aq_read |-> FALSE, calls |-> << >>,
                 fatal |-> FALSE, render |-> << >>]
           ELSE [temperature |-> t, humidity |-> h, eco2 |-> eco2, tvoc |-> tvoc,
                 set_args |-> <<ToFloat(t), ToFloat(h)>>,
                 aq_read |-> set_ok,
                 calls |-> <<"hdc1000_get_temp", "hdc1000_get_humi",
                             "ccs811_set_environmental_data">>
                           \o (IF set_ok THEN <<"ccs811_get_results">> ELSE << >>)
                           \o (IF stored THEN <<"display_measurements">> ELSE << >>),
                 fatal |-> set_ok /\ ~get_ok,
                 render |-> IF stored THEN display_measurements(eco2, tvoc, h) ELSE << >>]

\* A cycle that only logs a failed CCS811 result read.
ccs811_interrupt_handler_read_logged(t, h, set_ok, get_ok, aq) ==
    LET stored == set_ok /\ get_ok
        eco2 == IF stored THEN ToInt16(aq[1]) ELSE g_eco2
        tvoc == IF stored THEN ToInt16(aq[2]) ELSE g_tvoc
    IN  [temperature |-> t, humidity |-> h, eco2 |-> eco2, tvoc |-> tvoc,
         set_args |-> <<ToFloat(t), ToFloat(h)>>,
         aq_read |-> set_ok,
         calls |-> <<"hdc1000_get_temp", "hdc1000_get_humi",
                     "ccs811_set_environmental_data">>
                   \o (IF set_ok THEN <<"ccs811_get_results">> ELSE << >>)
                   \o (IF stored THEN <<"display_measurements">> ELSE << >>),
         fatal |-> FALSE,
         render |-> IF stored THEN display_measurements(eco2, tvoc, h) ELSE << >>]

\* ccs811_interrupt_handler: one measurement cycle, given what the HDC1000
\* returned (t, h) and whether the CCS811 write and read succeed. The result
\* holds the new globals and what the cycle did.
ccs811_interrupt_handler(t, h, set_ok, get_ok, aq) ==
    LET stored == set_ok /\ get_ok
        eco2 == IF stored THEN ToInt16(aq[1]) ELSE g_eco2
        tvoc == IF stored THEN ToInt16(aq[2]) ELSE g_tvoc
    IN  [temperature |-> t, humidity |-> h, eco2 |-> eco2, tvoc |-> tvoc,
         set_args |-> <<ToFloat(t), ToFloat(h)>>,
         aq_read |-> set_ok,
         calls |-> <<"hdc1000_get_temp", "hdc1000_get_humi",
                     "ccs811_set_environmental_data">>
                   \o (IF set_ok THEN <<"ccs811_get_results">> ELSE << >>)
                   \o (IF stored THEN <<"display_measurements">> ELSE << >>),
         fatal |-> set_ok /\ ~get_ok,
         render |-> IF stored THEN display_measurements(eco2, tvoc, h) ELSE << >>]

\* History: the first fault a handler met. A failed timer acknowledge or
\* level read is an I/O fault, a failed CCS811 result read a sensor fault.
NoteFault(e) ==
    handler_fault' =
        IF handler_fault # "none" \/ ~e.fatal THEN handler_fault
        ELSE IF e.aq_read THEN "sensor" ELSE "io"

\* A sequence of sampled levels to follow from the start of the program.
PollScenario == <<"High", "High", "Low", "Low", "High", "Low">>

\* History: while the successful polls of detector d, counted from its
\* first poll, sample the levels of PollScenario in order, their number and
\* the polls that called back; -1 once a poll departs from the scenario.
NotePoll(d, e) ==
    LET here == scenario[d]
        follows == /\ e.ack /\ e.read
                   /\ here.polls >= 0 /\ here.polls < Len(PollScenario)
                   /\ e.sampled = PollScenario[here.polls + 1]
    IN  scenario' =
           [scenario EXCEPT ![d] =
              IF follows
                 THEN [polls |-> here.polls + 1,
                       callbacks |-> IF e.callbacks > 0
                                        THEN here.callbacks \cup {here.polls + 1}
                                        ELSE here.callbacks]
                 ELSE [polls |-> -1, callbacks |-> {}]]

\* The deliveries of SIGTERM a handler can see while it runs: the signal
\* handler of main.c:377-381 runs on the same thread, between any two of
\* the handler's instructions, once init_handlers installed it.
SignalsDuring == IF sig_installed THEN BOOLEAN ELSE {FALSE}

\* A button poll that logs a failed level read and waits for the next poll.
button_timer_event_handler_read_retried ==
    /\ pc = "dispatch"
    /\ "button" \in pending
    /\ \E sigterm \in SignalsDuring, ack_ok \in BOOLEAN :
          LET e0 == [Event("button_poll", ack_ok) EXCEPT
                        !.ack = ack_ok, !.before = g_state_button1,
                        !.consumed = "timer_button", !.sigterm = sigterm]
          IN  IF ~ack_ok
                 THEN /\ gb_is_termination_requested' = TRUE
                      /\ ev' = [e0 EXCEPT !.fatal = TRUE]
                      /\ UNCHANGED g_state_button1
                 ELSE \E read_ok \in BOOLEAN :
                         IF ~read_ok
                            THEN /\ gb_is_termination_requested' =
                                       (gb_is_termination_requested \/ sigterm)
                                 /\ ev' = [e0 EXCEPT !.ok = FALSE, !.read_tried = TRUE]
                                 /\ UNCHANGED g_state_button1
                            ELSE \E new \in Levels :
                                    LET edge == button_edge(g_state_button1, new)
                                    IN  /\ g_state_button1' = edge.state
                                        /\ ev' = [e0 EXCEPT !.read_tried = TRUE, !.read = TRUE,
                                                            !.sampled = new,
                                                            !.callbacks = edge.callbacks]
                                        /\ gb_is_termination_requested' =
                                              (gb_is_termination_requested \/ sigterm)
    /\ NoteFault(ev')
    /\ NotePoll("button", ev')
    /\ Dispatched("button", ev'.fatal)
    /\ UNCHANGED <<result, sig_installed, fd, g_state_ccs811_int, snapshot,
                   iot_application, acquired, released, failed_step>>

\* A button poll that keeps its level in the data-ready detector's
\* variable.
button_timer_event_handler_sharing_level ==
    /\ pc = "dispatch"
    /\ "button" \in pending
    /\ \E sigterm \in SignalsDuring, ack_ok \in BOOLEAN :
          LET e0 == [Event("button_poll", ack_ok) EXCEPT
                        !.ack = ack_ok, !.before = g_state_ccs811_int,
                        !.consumed = "timer_button", !.sigterm = sigterm]
          IN  IF ~ack_ok
                 THEN /\ gb_is_termination_requested' = TRUE
                      /\ ev' = [e0 EXCEPT !.fatal = TRUE]
                      /\ UNCHANGED g_state_ccs811_int
                 ELSE \E read_ok \in BOOLEAN :
                         IF ~read_ok
                            THEN /\ gb_is_termination_requested' = TRUE
                                 /\ ev' = [e0 EXCEPT !.ok = FALSE, !.read_tried = TRUE,
                                                     !.fatal = TRUE]
                                 /\ UNCHANGED g_state_ccs811_int
                            ELSE \E new \in Levels :
                                    LET edge == button_edge(g_state_ccs811_int, new)
                                    IN  /\ g_state_ccs811_int' = edge.state
                                        /\ ev' = [e0 EXCEPT !.read_tried = TRUE, !.read = TRUE,
                                                            !.sampled = new,
                                                            !.callbacks = edge.callbacks]
                                        /\ gb_is_termination_requested' =
                                              (gb_is_termination_requested \/ sigterm)
    /\ NoteFault(ev')
    /\ NotePoll("button", ev')
    /\ Dispatched("button", ev'.fatal)
    /\ UNCHANGED <<result, sig_installed, fd, g_state_button1, snapshot,
                   iot_application, acquired, released, failed_step>>

button_timer_event_handler ==
    /\ pc = "dispatch"
    /\ "button" \in pending
    /\ \E sigterm \in SignalsDuring, ack_ok \in BOOLEAN :
          LET e0 == [Event("button_poll", ack_ok) EXCEPT
                        !.ack = ack_ok, !.before = g_state_button1,
                        !.consumed = "timer_button", !.sigterm = sigterm]
          IN  IF ~ack_ok
                 THEN /\ gb_is_termination_requested' = TRUE
                      /\ ev' = [e0 EXCEPT !.fatal = TRUE]
                      /\ UNCHANGED g_state_button1
                 ELSE \E read_ok \in BOOLEAN :
                         IF ~read_ok
                            THEN /\ gb_is_termination_requested' = TRUE
                                 /\ ev' = [e0 EXCEPT !.ok = FALSE, !.read_tried = TRUE,
                                                     !.fatal = TRUE]
                                 /\ UNCHANGED g_state_button1
                            ELSE \E new \in Levels :
                                    LET edge == button_edge(g_state_button1, new)
                                    IN  /\ g_state_button1' = edge.state
                                        /\ ev' = [e0 EXCEPT !.read_tried = TRUE, !.read = TRUE,
                                                            !.sampled = new,
                                                            !.callbacks = edge.callbacks]
                                        /\ gb_is_termination_requested' =
                                              (gb_is_termination_requested \/ sigterm)
    /\ NoteFault(ev')
    /\ NotePoll("button", ev')
    /\ Dispatched("button", ev'.fatal)
    /\ UNCHANGED <<result, sig_installed, fd, g_state_ccs811_int, snapshot,
                   iot_application, acquired, released, failed_step>>

ccs811_int_timer_event_handler ==
    /\ pc = "dispatch"
    /\ "ccs811_int" \in pending
    /\ \E sigterm \in SignalsDuring, ack_ok \in BOOLEAN :
          LET e0 == [Event("ccs811_int_poll", ack_ok) EXCEPT
                        !.ack = ack_ok, !.before = g_state_ccs811_int,
                        !.consumed = "timer_ccs811_int", !.sigterm = sigterm]
          IN  IF ~ack_ok
                 THEN /\ gb_is_termination_requested' = TRUE
                      /\ ev' = [e0 EXCEPT !.fatal = TRUE]
                      /\ UNCHANGED <<g_state_ccs811_int, snapshot>>
                 ELSE \E read_ok \in BOOLEAN :
                         IF ~read_ok
                            THEN /\ gb_is_termination_requested' = TRUE
                                 /\ ev' = [e0 EXCEPT !.ok = FALSE, !.read_tried = TRUE,
                                                     !.fatal = TRUE]
                                 /\ UNCHANGED <<g_state_ccs811_int, snapshot>>
                            ELSE \E new \in Levels :
                                    LET edge == ccs811_int_edge(g_state_ccs811_int, new)
                                        e1 == [e0 EXCEPT !.read_tried = TRUE, !.read = TRUE,
                                                         !.sampled = new,
                                                         !.callbacks = edge.callbacks]
                                    IN  /\ g_state_ccs811_int' = edge.state
                                        /\ IF edge.callbacks = 0
                                              THEN /\ ev' = e1
                                                   /\ gb_is_termination_requested' =
                                                         (gb_is_termination_requested \/ sigterm)
                                                   /\ UNCHANGED snapshot
                                              ELSE \E t_ok, h_ok, set_ok \in BOOLEAN :
                                                   \E t \in (IF t_ok THEN TempValues ELSE HdcFailValues) :
                                                   \E h \in (IF h_ok THEN HumValues ELSE HdcFailValues) :
                                                   \E get_ok \in (IF set_ok THEN BOOLEAN ELSE {FALSE}) :
                                                   \E aq \in (IF get_ok THEN AqResults ELSE {<<0, 0>>}) :
                                                      LET c == ccs811_interrupt_handler(t, h, set_ok, get_ok, aq)
                                                      IN  /\ g_temperature' = c.temperature
                                                          /\ g_humidity' = c.humidity
                                                          /\ g_eco2' = c.eco2
                                                          /\ g_tvoc' = c.tvoc
                                                          /\ gb_is_termination_requested' =
                                                                (gb_is_termination_requested
                                                                 \/ c.fatal \/ sigterm)
                                                          /\ ev' = [e1 EXCEPT
                                                                !.ref_ok = t_ok /\ h_ok,
                                                                !.ref_values = <<t, h>>,
                                                                !.set_ok = set_ok,
                                                                !.get_ok = set_ok /\ get_ok,
                                                                !.set_args = c.set_args,
                                                                !.aq_read = c.aq_read,
                                                                !.aq_result = IF get_ok THEN aq ELSE << >>,
                                                                !.calls = c.calls,
                                                                !.fatal = c.fatal,
                                                                !.ok = ~c.fatal,
                                                                !.render = c.render]
    /\ NoteFault(ev')
    /\ NotePoll("ccs811_int", ev')
    /\ Dispatched("ccs811_int", ev'.fatal)
    /\ UNCHANGED <<result, sig_installed, fd, g_state_button1, iot_application,
                   acquired, released, failed_step>>

\* An upload tick that goes on to upload after a failed acknowledge.
upload_timer_event_handler_uploading_anyway ==
    /\ pc = "dispatch"
    /\ "upload" \in pending
    /\ \E sigterm \in SignalsDuring, ack_ok \in BOOLEAN :
          LET e0 == [Event("upload_tick", ack_ok) EXCEPT
                        !.ack = ack_ok, !.consumed = "timer_upload",
                        !.sigterm = sigterm]
          IN  \E malloc_ok \in BOOLEAN :
                 /\ ev' = [e0 EXCEPT !.alloc_ok = malloc_ok,
                                     !.fatal = ~ack_ok,
                                     !.messages = azure_upload_handler(malloc_ok)]
                 /\ gb_is_termination_requested' =
                       (gb_is_termination_requested \/ sigterm \/ ~ack_ok)
    /\ NoteFault(ev')
    /\ Dispatched("upload", ev'.fatal)
    /\ UNCHANGED <<result, sig_installed, fd, detectors, snapshot,
                   iot_application, acquired, released, failed_step, scenario>>

upload_timer_event_handler ==
    /\ pc = "dispatch"
    /\ "upload" \in pending
    /\ \E sigterm \in SignalsDuring, ack_ok \in BOOLEAN :
          LET e0 == [Event("upload_tick", ack_ok) EXCEPT
                        !.ack = ack_ok, !.consumed = "timer_upload",
                        !.sigterm = sigterm]
          IN  IF ~ack_ok
                 THEN /\ gb_is_termination_requested' = TRUE
                      /\ ev' = [e0 EXCEPT !.fatal = TRUE]
                 ELSE \E malloc_ok \in BOOLEAN :
                         /\ ev' = [e0 EXCEPT !.alloc_ok = malloc_ok,
                                             !.messages = azure_upload_handler(malloc_ok)]
                         /\ gb_is_termination_requested' =
                               (gb_is_termination_requested \/ sigterm)
    /\ NoteFault(ev')
    /\ Dispatched("upload", ev'.fatal)
    /\ UNCHANGED <<result, sig_installed, fd, detectors, snapshot,
                   iot_application, acquired, released, failed_step, scenario>>

(***************************************************************************)
(* Cleanup.                                                                *)
(***************************************************************************)
\* The order in which close_peripherals_and_handlers closes.
CloseOrder == <<"ccs", "hdc", "i2c", "gpio_ccs811_int", "gpio_button1", "epoll">>

\* close_peripherals_and_handlers: each handle that was obtained (non-NULL
\* pointer, descriptor >= 0) is closed, in CloseOrder; a close that fails
\* is logged and the next one is made all the same.
close_peripherals_and_handlers ==
    /\ pc = "cleanup"
    /\ LET closing == SelectSeq(CloseOrder, LAMBDA r : fd[r] = "open")
       IN  /\ released' = closing
           /\ fd' = [r \in Resources |->
                        IF \E i \in 1..Len(closing) : closing[i] = r
                           THEN "closed" ELSE fd[r]]
           /\ \E close_ok \in BOOLEAN : ev' = Event("cleanup", close_ok)
    /\ pc' = "stopped"
    /\ UNCHANGED <<gb_is_termination_requested, result, sig_installed, detectors,
                   snapshot, iot_application, loop_state, acquired, failed_step,
                   handler_fault, scenario>>

(***************************************************************************)
(* Specification.                                                          *)
(***************************************************************************)
\* The steps of the program's one thread: every step but the delivery of
\* the signal, which is the environment's.
Program ==
    \/ main_start
    \/ init_handlers_sigaction
    \/ init_handlers_epoll
    \/ init_handlers_upload_timer
    \/ main_after_init_handlers
    \/ init_peripherals_i2c_open
    \/ init_peripherals_i2c_speed
    \/ init_peripherals_i2c_timeout
    \/ init_peripherals_hdc
    \/ init_peripherals_ccs
    \/ init_peripherals_gpio_ccs811_int
    \/ init_peripherals_oled
    \/ init_peripherals_gpio_button1
    \/ init_peripherals_button_timer
    \/ init_peripherals_ccs811_int_timer
    \/ main_after_init_peripherals
    \/ main_enter
    \/ main_loop_check
    \/ WaitForEventAndCallHandler
    \/ button_timer_event_handler
    \/ ccs811_int_timer_event_handler
    \/ upload_timer_event_handler
    \/ main_after_wait
    \/ close_peripherals_and_handlers

Next ==
    \/ Program
    \/ termination_handler

Spec == Init /\ [][Next]_vars

\* The behaviours of the program alone: the same steps, no scenario followed.
SpecProgram == InitUnfollowed /\ [][Next]_vars

\* The thread keeps running: main.c has no blocking call but the wait, and
\* the timers of init_peripherals (1 ms, 250 ms, 60 s) make every wait
\* return.
FairSpec == InitUnfollowed /\ [][Next]_vars /\ WF_vars(Program)

(***************************************************************************)
(* Properties.                                                             *)
(***************************************************************************)
PollOps == {"button_poll", "ccs811_int_poll"}
HandlerOps == PollOps \cup {"upload_tick"}

\* The last step was an edge-detector poll whose acknowledge and level read
\* both succeeded.
GoodPoll(e) == e.op \in PollOps /\ e.ack /\ e.read

\* The last step ran a measurement cycle (ccs811_interrupt_handler).
CycleRan(e) == e.op = "ccs811_int_poll" /\ e.set_args # << >>

\* C1: on a poll whose acknowledge and level read succeed, each detector
\* invokes its edge callback exactly once when the sample is Low and the
\* stored level was High, and not at all otherwise (same level, or Low to
\* High); for the data-ready detector the callback is the measurement cycle.
\* From stored level High the polls High, High, Low, Low, High, Low call
\* back on polls 3 and 6 only.
C1_CallbackOnFallingEdgeOnly ==
    /\ GoodPoll(ev) =>
          /\ ev.callbacks = (IF ev.sampled = "Low" /\ ev.before = "High" THEN 1 ELSE 0)
          /\ ev.op = "ccs811_int_poll" => (CycleRan(ev) <=> ev.callbacks = 1)
    /\ ev.op \in PollOps /\ ~(ev.ack /\ ev.read) => ev.callbacks = 0 /\ ~CycleRan(ev)
    /\ \A d \in {"button", "ccs811_int"} :
          scenario[d].polls >= 0 =>
             scenario[d].callbacks = {3, 6} \cap (1..scenario[d].polls)

C1_Witness ==
    /\ GoodPoll(ev) /\ ev.op = "ccs811_int_poll"
    /\ ev.before = "High" /\ ev.sampled = "Low" /\ ev.callbacks = 1
    /\ scenario["ccs811_int"] = [polls |-> Len(PollScenario), callbacks |-> {3, 6}]
    /\ scenario["button"] = [polls |-> Len(PollScenario), callbacks |-> {3, 6}]

\* C2: eCO2/TVOC turn from invalid (g_eco2 not above 0) to valid only in a
\* measurement cycle whose reference read, compensation write and
\* air-quality read all succeeded.
C2_ValidOnlyAfterFullCycle ==
    [][ (g_eco2 <= 0 /\ g_eco2' > 0) =>
            (CycleRan(ev') /\ ev'.ref_ok /\ ev'.set_ok /\ ev'.get_ok) ]_vars

\* C3: a measurement cycle whose compensation write fails leaves eCO2 and
\* TVOC as they were, attempts no air-quality read, renders nothing and
\* leaves the termination flag as it was (a signal delivered meanwhile
\* apart); temperature and humidity hold the values read in this cycle.
C3_FailedCompensationAbortsCycle ==
    [][ (CycleRan(ev') /\ ~ev'.set_ok) =>
            /\ g_eco2' = g_eco2 /\ g_tvoc' = g_tvoc
            /\ ~ev'.aq_read
            /\ ev'.render = << >>
            /\ ~ev'.fatal
            /\ gb_is_termination_requested' =
                  (gb_is_termination_requested \/ ev'.sigterm)
            /\ <<g_temperature', g_humidity'>> = ev'.set_args
            /\ UNCHANGED <<fd, g_state_button1, wait_result>> ]_vars

C3_Witness ==
    /\ CycleRan(ev) /\ ~ev.set_ok
    /\ g_eco2 = 612 /\ g_tvoc = 134
    /\ g_temperature = -4
    /\ ~gb_is_termination_requested

\* C4: a measurement cycle whose compensation write succeeds and whose
\* air-quality read fails sets the termination flag and renders nothing;
\* the flag stays set while the loop runs, and the loop condition, once it
\* sees the flag, leaves the loop for cleanup.
C4_FailedResultReadIsFatal ==
    [][ /\ (CycleRan(ev') /\ ev'.set_ok /\ ~ev'.get_ok) =>
              /\ ev'.aq_read
              /\ gb_is_termination_requested'
              /\ ev'.render = << >>
              /\ g_eco2' = g_eco2 /\ g_tvoc' = g_tvoc
        /\ (gb_is_termination_requested /\ pc \in {"dispatch", "wait_return", "loop"}) =>
              /\ gb_is_termination_requested'
              /\ pc = "loop" => pc' \in {"loop", "cleanup"} ]_vars

C4_Witness ==
    /\ pc = "cleanup"
    /\ handler_fault = "sensor"
    /\ gb_is_termination_requested

\* C5: once a handler has met an I/O fault (failed timer acknowledge or
\* level read) the flag is set, the wait call that dispatched it has
\* nothing left to dispatch, main() is on its way out of the loop, and the
\* faulting handler is the last timer handler to have run.
C5_IoFaultStopsDispatch ==
    handler_fault = "io" =>
        /\ gb_is_termination_requested
        /\ pending = {}
        /\ pc \in {"wait_return", "loop", "cleanup", "stopped"}
        /\ ev.op \in HandlerOps => ev.fatal /\ ~ev.aq_read /\ pc = "wait_return"

C5_Witness ==
    /\ handler_fault = "io"
    /\ pc = "stopped"

InitOps ==
    {"sigaction", "CreateEpollFd", "CreateTimerFd_upload", "I2CMaster_Open",
     "I2CMaster_SetBusSpeed", "I2CMaster_SetTimeout", "hdc1000_open",
     "ccs811_open", "GPIO_OpenAsInput_ccs811_int", "u8g2_InitDisplay",
     "GPIO_OpenAsInput_button1", "CreateTimerFd_button",
     "CreateTimerFd_ccs811_int"}

RunningOps ==
    {"enter_running", "loop_continue", "loop_exit", "wait", "wait_return"}
        \cup HandlerOps

\* C6: the dispatch loop is entered only when every initialization step
\* succeeded; after a failed step no later initialization step is
\* attempted and nothing of the running phase (sensor mode, render, wait,
\* handlers) happens.
C6_InitFailureSkipsTheRest ==
    [][ /\ failed_step # "none" => ev'.op \notin (InitOps \cup RunningOps)
        /\ (pc = "main_226" /\ pc' = "loop") =>
              /\ failed_step = "none"
              /\ sig_installed
              /\ acquired = AcquireOrder ]_vars

\* C7: when cleanup has finished, nothing that was acquired is still open.
C7_EverythingAcquiredIsReleased ==
    pc = "stopped" => \A r \in Resources : fd[r] # "open"

\* The place of resource r in a history.
Position(seq, r) == CHOOSE i \in 1..Len(seq) : seq[i] = r

Has(seq, r) == \E i \in 1..Len(seq) : seq[i] = r

\* C8: of two resources that were both acquired and both released, the one
\* acquired later is released first.
C8_ReverseAcquisitionOrder ==
    pc = "stopped" =>
        \A i, j \in 1..Len(acquired) :
            (i < j /\ Has(released, acquired[i]) /\ Has(released, acquired[j])) =>
                Position(released, acquired[j]) < Position(released, acquired[i])

\* C9: no step clears a termination flag that is set.
C9_FlagIsMonotonic ==
    [][ gb_is_termination_requested => gb_is_termination_requested' ]_vars

C9_Witness ==
    /\ gb_is_termination_requested
    /\ ev.op = "wait_return"
    /\ ev.ok
    /\ pc = "loop"

\* C10 as stated: every upload tick whose acknowledge succeeds hands over
\* exactly one message built from the current snapshot.
C10_EveryTickUploads ==
    (ev.op = "upload_tick" /\ ev.ack) =>
        ev.messages = << UploadMessage(g_eco2, g_tvoc, g_temperature, g_humidity) >>

\* C10, amended: on an upload tick whose acknowledge succeeds, a build with
\* IOT_CENTRAL_APPLICATION or IOT_HUB_APPLICATION whose buffer allocation
\* succeeds hands over exactly one message built from the current snapshot,
\* also while eCO2 is still invalid (the never-populated snapshot goes out
\* as zeros); a build without cloud connectivity, or a failed allocation,
\* hands over none.
C10_TickUploadsInCloudBuild ==
    (ev.op = "upload_tick" /\ ev.ack) =>
        /\ ~ev.fatal
        /\ IF iot_application /\ ev.alloc_ok
              THEN /\ Len(ev.messages) = 1
                   /\ ev.messages[1] =
                         UploadMessage(g_eco2, g_tvoc, g_temperature, g_humidity)
                   /\ snapshot = <<0, 0, 0, 0>> =>
                         ev.messages[1] =
                            "{\"eco2\":\"0\", \"tvoc\":\"0\", \"temperature\":\"0.0\", \"humidity\":\"0.0\"}"
              ELSE ev.messages = << >>

C10_Witness ==
    /\ ev.op = "upload_tick" /\ ev.ack
    /\ g_eco2 = 0
    /\ Len(ev.messages) = 1
    /\ ev.messages[1] =
          "{\"eco2\":\"0\", \"tvoc\":\"0\", \"temperature\":\"0.0\", \"humidity\":\"0.0\"}"

\* The upload tick of a cloud build whose acknowledge and allocation
\* succeeded.
Uploaded(e) == e.op = "upload_tick" /\ e.ack /\ e.alloc_ok /\ iot_application

TimerOp ==
    [t \in Timers |->
        CASE t = "button" -> "button_poll"
          [] t = "ccs811_int" -> "ccs811_int_poll"
          [] t = "upload" -> "upload_tick"]

\* C12: no registered timer is starved: a timer the wait reported ready is
\* eventually serviced by its own handler, whichever other timers are ready
\* with it and in whatever order they are dispatched, unless a handler's
\* fault ends the Running phase first.
\* Stated as: the dispatch of the ready timers always comes to its end, and
\* a ready timer leaves the set awaiting dispatch only by the run of its own
\* handler or by the fault of another.
C12_NoTimerStarved ==
    /\ (pc = "dispatch") ~> (pc = "wait_return" /\ pending = {})
    /\ [][ \A t \in Timers :
              (pc = "dispatch" /\ t \in pending /\ t \notin pending') =>
                 \/ ev'.op = TimerOp[t]
                 \/ (ev'.op \in HandlerOps /\ ev'.fatal /\ handler_fault' # "none") ]_vars

C12_Witness ==
    /\ pc = "dispatch"
    /\ ev.op = "upload_tick" /\ ~ev.fatal
    /\ pending = {"button", "ccs811_int"}
    /\ handler_fault = "none"

\* The positions of main inside the dispatch loop, main.c:240-273.
LoopPcs == {"loop", "wait", "dispatch", "wait_return"}

\* C13: once the flag is set while the program is in its dispatch loop, and
\* every wait returns, the program leaves the loop at its next check of the
\* flag, runs cleanup and stops; cleanup runs once, from the cleanup position only, and after leaving the
\* loop the program never enters it again.
C13_TerminationCompletes ==
    /\ (pc \in LoopPcs /\ gb_is_termination_requested) ~> (pc = "stopped")
    /\ [][ (pc = "loop" /\ gb_is_termination_requested) => (pc' \in {"loop", "cleanup"}) ]_vars
    /\ [][ (pc \in {"cleanup", "stopped"}) => (pc' \in {"cleanup", "stopped"}) ]_vars
    /\ [][ (released' # released) => (pc = "cleanup" /\ pc' = "stopped") ]_vars
    /\ [][ (ev'.op = "cleanup") => (pc = "cleanup" /\ ev.op # "cleanup") ]_vars

C13_Witness ==
    /\ pc = "stopped"
    /\ gb_is_termination_requested
    /\ acquired = AcquireOrder
    /\ ev.op = "cleanup"
    /\ released = CloseOrder

\* The places of call c in the calls of step e.
Places(e, c) == {i \in 1..Len(e.calls) : e.calls[i] = c}

\* C14: every measurement cycle reads the reference sensor first, then
\* writes the compensation with exactly the temperature and humidity read
\* in that same cycle, and reads the air-quality results only after that
\* write, and only when it succeeded.
C14_CycleFollowsProtocol ==
    CycleRan(ev) =>
        /\ Len(ev.calls) >= 3
        /\ ev.calls[1] = "hdc1000_get_temp"
        /\ ev.calls[2] = "hdc1000_get_humi"
        /\ Places(ev, "ccs811_set_environmental_data") = {3}
        /\ ev.set_args = ev.ref_values
        /\ ev.ref_values = <<g_temperature, g_humidity>>
        /\ Places(ev, "ccs811_get_results") = (IF ev.set_ok THEN {4} ELSE {})
        /\ ev.aq_read <=> ev.set_ok

C14_Witness ==
    /\ CycleRan(ev)
    /\ ev.set_ok /\ ev.get_ok
    /\ ev.ref_values = <<-4, 4500>>
    /\ ev.set_args = <<-4, 4500>>
    /\ ev.calls[4] = "ccs811_get_results"

\* C15: while Running, a measurement cycle draws the display if and only if
\* its compensation write and its result read both succeeded; it draws it
\* once, as its last call, from the snapshot the cycle has just stored, so
\* that the eCO2, TVOC and humidity drawn are those the cycle produced (a
\* cycle that read 45.0 and (612, 134) draws 612, 134 and 45.0).
C15_DisplayAfterFullCycle ==
    CycleRan(ev) =>
        /\ pc \in LoopPcs
        /\ (ev.render # << >>) <=> (ev.set_ok /\ ev.get_ok)
        /\ Places(ev, "display_measurements")
              = (IF ev.set_ok /\ ev.get_ok THEN {Len(ev.calls)} ELSE {})
        /\ (ev.set_ok /\ ev.get_ok) =>
              /\ <<g_humidity, g_eco2, g_tvoc>>
                    = <<ev.ref_values[2], ev.aq_result[1], ev.aq_result[2]>>
              /\ ev.render = display_measurements(ev.aq_result[1], ev.aq_result[2],
                                                  ev.ref_values[2])
              /\ (ev.aq_result = <<612, 134>> /\ ev.ref_values[2] = 4500) =>
                    ev.render = <<"612", "134", "45.0">>

C15_Witness ==
    /\ CycleRan(ev)
    /\ ev.aq_result = <<612, 134>>
    /\ ev.ref_values[2] = 4500
    /\ ev.render = <<"612", "134", "45.0">>
    /\ ev.calls[Len(ev.calls)] = "display_measurements"

\* Among the stored levels, that of the detector whose poll is op.
StoredLevel(op, levels) ==
    IF op = "button_poll" THEN levels[1] ELSE levels[2]

\* Step e is a handler that went through all the steps its inputs call for.
RanToItsEnd(e) ==
    /\ (e.op \in PollOps /\ e.ack) => e.read_tried
    /\ GoodPoll(e) =>
          e.callbacks = (IF e.sampled = "Low" /\ e.before = "High" THEN 1 ELSE 0)
    /\ (e.op = "ccs811_int_poll" /\ e.callbacks = 1) =>
          /\ CycleRan(e)
          /\ Len(e.calls) = 3 + (IF e.set_ok THEN 1 ELSE 0)
                               + (IF e.set_ok /\ e.get_ok THEN 1 ELSE 0)
          /\ (e.render # << >>) <=> (e.set_ok /\ e.get_ok)
    /\ Uploaded(e) => Len(e.messages) = 1

\* C16: cancellation is cooperative under every interleaving of SIGTERM
\* with the dispatch loop: a handler that starts with the flag set, or
\* during which the flag is set, goes through all of its steps; the ready
\* timers still awaiting dispatch keep their turn; and the loop is left
\* only at the loop condition, which every iteration passes once, before
\* its wait.
C16_CancellationIsCooperative ==
    [][/\ (ev'.op \in HandlerOps /\ (gb_is_termination_requested \/ ev'.sigterm)) =>
             /\ RanToItsEnd(ev')
             /\ GoodPoll(ev') => StoredLevel(ev'.op, detectors') = ev'.sampled
             /\ ~ev'.fatal => pending' = pending \ {t \in Timers : TimerOp[t] = ev'.op}
       /\ (pc \in LoopPcs /\ pc' \notin LoopPcs) =>
             (pc = "loop" /\ gb_is_termination_requested /\ pc' = "cleanup")
       /\ (pc = "loop" /\ pc' = "wait") => ~gb_is_termination_requested
       /\ (pc' = "wait" /\ pc # "wait") => pc = "loop"
       /\ (pc' = "loop" /\ pc # "loop") => pc \in {"wait_return", "main_226"}
      ]_vars

C16_Witness ==
    /\ pc = "dispatch"
    /\ pending = {"upload"}
    /\ CycleRan(ev) /\ ev.sigterm
    /\ handler_fault = "none"
    /\ gb_is_termination_requested
    /\ ev.render = <<"612", "134", "45.0">>
    /\ g_state_ccs811_int = "Low"

\* Step e is an edge-detector poll whose level read (GPIO_GetValue) failed.
FailedRead(e) == e.op \in PollOps /\ e.ack /\ e.read_tried /\ ~e.read

\* C17: a failed level read in either edge detector is fatal and is not
\* retried: the flag is set, the edge callback is not invoked on that poll
\* (no measurement cycle, the snapshot stays), both stored levels are left
\* as they were, and the dispatch ends with the loop condition next.
C17_FailedLevelReadIsFatal ==
    [][ FailedRead(ev') =>
          /\ gb_is_termination_requested'
          /\ ev'.fatal
          /\ ev'.callbacks = 0
          /\ ~CycleRan(ev')
          /\ ev'.sampled = "none"
          /\ detectors' = detectors
          /\ snapshot' = snapshot
          /\ handler_fault' # "none"
          /\ pc' = "wait_return" ]_vars

C17_Witness ==
    /\ FailedRead(ev)
    /\ ev.op = "ccs811_int_poll"
    /\ g_state_ccs811_int = "High"
    /\ gb_is_termination_requested
    /\ ~ev.sigterm
    /\ handler_fault = "io"

\* The timer descriptor each handler passes to ConsumeTimerFdEvent.
OwnTimer ==
    [t \in Timers |->
        CASE t = "button" -> "timer_button"
          [] t = "ccs811_int" -> "timer_ccs811_int"
          [] t = "upload" -> "timer_upload"]

\* C18: every dispatch of a timer handler acknowledges the handler's own
\* timer, once, as its first step and inside the wait call that reported
\* the timer, so before the next wait; a failed acknowledge is fatal: the
\* flag is set and the handler does nothing else (no level read, no change
\* of a stored level, no edge callback, no measurement, no upload message).
C18_HandlerAcknowledgesItsTimer ==
    [][/\ \A t \in Timers :
             ev'.op = TimerOp[t] =>
                /\ pc = "dispatch" /\ t \in pending /\ t \notin pending'
                /\ ev'.consumed = OwnTimer[t]
                /\ ~ev'.ack =>
                      /\ gb_is_termination_requested'
                      /\ ev'.fatal
                      /\ ~ev'.read_tried /\ ev'.sampled = "none"
                      /\ ev'.callbacks = 0 /\ ~CycleRan(ev')
                      /\ ev'.messages = << >> /\ ev'.render = << >>
                      /\ detectors' = detectors
                      /\ snapshot' = snapshot
       /\ ev'.op \notin HandlerOps => ev'.consumed = "none"
       /\ ev'.op = "wait" => pending = {}
      ]_vars

C18_Witness ==
    /\ ev.op = "upload_tick"
    /\ ev.consumed = "timer_upload"
    /\ ~ev.ack /\ ev.fatal
    /\ iot_application
    /\ ev.messages = << >>
    /\ gb_is_termination_requested /\ ~ev.sigterm

\* C19: a measurement cycle starts only on a data-ready poll that samples
\* Low while the stored data-ready level is High, and leaves the stored
\* level Low; the stored level returns to High only by a successful poll
\* that sampled High, so such a poll lies between any two cycles; and a
\* poll that samples Low while the stored level is Low starts no cycle, so
\* no cycle starts while the line stays asserted.
C19_CycleNeedsFallingEdge ==
    [][/\ CycleRan(ev') =>
             /\ GoodPoll(ev')
             /\ g_state_ccs811_int = "High"
             /\ ev'.sampled = "Low"
             /\ g_state_ccs811_int' = "Low"
       /\ (g_state_ccs811_int = "Low" /\ g_state_ccs811_int' = "High") =>
             /\ ev'.op = "ccs811_int_poll"
             /\ GoodPoll(ev')
             /\ ev'.sampled = "High"
       /\ (ev'.op = "ccs811_int_poll" /\ g_state_ccs811_int = "Low"
             /\ ev'.sampled # "High") =>
             /\ ~CycleRan(ev')
             /\ snapshot' = snapshot
             /\ g_state_ccs811_int' = "Low"
      ]_vars

C19_Witness ==
    /\ ev.op = "ccs811_int_poll" /\ GoodPoll(ev)
    /\ ev.before = "Low" /\ ev.sampled = "Low"
    /\ ~CycleRan(ev)
    /\ g_humidity = 4500 /\ g_eco2 = 0
    /\ ~gb_is_termination_requested

\* C20: after every edge-detector poll whose timer acknowledge and level
\* read both succeeded, the detector's stored level is the level just
\* sampled, also when the poll's callback set the flag: after a measurement
\* cycle whose result read failed the stored data-ready level is Low.
C20_StoredLevelFollowsSample ==
    GoodPoll(ev) =>
        /\ StoredLevel(ev.op, detectors) = ev.sampled
        /\ (CycleRan(ev) /\ ev.fatal) =>
              (gb_is_termination_requested /\ g_state_ccs811_int = "Low")

C20_Witness ==
    /\ CycleRan(ev)
    /\ ev.aq_read /\ ev.fatal /\ ~ev.sigterm
    /\ handler_fault = "sensor"
    /\ ev.before = "High" /\ ev.sampled = "Low"
    /\ g_state_ccs811_int = "Low"

\* C21: the two edge detectors are independent: a button poll, also one
\* that detects a press, leaves the stored data-ready level and the
\* snapshot as they were, runs no measurement cycle, draws nothing and,
\* when its acknowledge and its level read succeed, leaves the termination
\* flag as it was (a signal delivered meanwhile apart); a data-ready poll
\* leaves the stored button level as it was.
C21_DetectorsAreIndependent ==
    [][/\ ev'.op = "button_poll" =>
             /\ g_state_ccs811_int' = g_state_ccs811_int
             /\ snapshot' = snapshot
             /\ ~CycleRan(ev')
             /\ ev'.calls = << >> /\ ev'.render = << >> /\ ev'.messages = << >>
             /\ GoodPoll(ev') =>
                   /\ ~ev'.fatal
                   /\ gb_is_termination_requested' =
                         (gb_is_termination_requested \/ ev'.sigterm)
       /\ ev'.op = "ccs811_int_poll" =>
             g_state_button1' = g_state_button1
      ]_vars

C21_Witness ==
    /\ ev.op = "button_poll" /\ GoodPoll(ev)
    /\ ev.before = "High" /\ ev.sampled = "Low" /\ ev.callbacks = 1
    /\ g_state_button1 = "Low"
    /\ g_state_ccs811_int = "High"
    /\ snapshot = <<2250, 4500, 612, 134>>
    /\ ~gb_is_termination_requested

====
